---------------------------- MODULE Spec2Model ----------------------------
(***************************************************************************)
(* Model of src/messages/MMgrConfigure.h: the MMgrConfigure message sent   *)
(* from ceph-mgr to MgrClient, its payload encoding and decoding, and the  *)
(* envelope steps (send, receive, version gate) that surround them.        *)
(*                                                                         *)
(* A uint32_t is held as a pair <<hi, lo>> of 16-bit halves, because the   *)
(* model checker's integers stop at 2^31 - 1: the value is hi * 2^16 + lo, *)
(* so <<0, 30>> is 30 and <<65535, 65535>> is 2^32 - 1.  A buffer is a     *)
(* sequence of bytes, each in 0..255.                                      *)
(***************************************************************************)
EXTENDS Integers, Sequences, FiniteSets, TLC

VARIABLES
  m,      \* the live MMgrConfigure object, or NoMsg
  wire,   \* the envelope in flight between sender and receiver, or NoWire
  last,   \* the most recent call: its name, its outcome, its input
  out,    \* what the most recent print() wrote to its stream
  hist,   \* history of m: how it was built, and each value encoded into it
  sent    \* history of the sender whose payload was last put on the wire

vars == <<m, wire, last, out, hist, sent>>

----------------------------------------------------------------------------
(* Bounds of the model *)

\* encode_payload is not called once the payload holds this many bytes
MaxPayload == 12
\* longest run of bytes a newer peer appends after the known field
MaxTrail == 2
\* highest wire version a peer sends
MaxVersion == 2

\* stats_period values the model draws inputs (and indeterminate values) from:
\* 0, 30, 0x00FF1E00 and 2^32 - 1
Periods == { <<0, 0>>, <<0, 30>>, <<255, 7680>>, <<65535, 65535>> }
\* feature masks passed to encode_payload
Features == {0, 1, 6}
\* bytes a newer peer appends
TrailBytes == {0, 255}

\* no live message object; nothing in flight
NoMsg == [type |-> "NoMsg"]
NoWire == [type |-> "NoWire"]
NoErr == "none"
TruncatedPayload == "TruncatedPayload"
IncompatibleVersion == "IncompatibleVersion"

----------------------------------------------------------------------------
(* The class constants *)

\* HEAD_VERSION bumped in this header only
HEAD_VERSION_raised == 1 + 1

HEAD_VERSION == 1

\* COMPAT_VERSION bumped without bumping HEAD_VERSION
COMPAT_VERSION_raised == HEAD_VERSION + 1

COMPAT_VERSION == 1
MSG_MGR_CONFIGURE == "MSG_MGR_CONFIGURE"

\* sizeof(uint32_t), the width of stats_period on the wire
sizeof_stats_period == 4

----------------------------------------------------------------------------
(* ::encode / ::decode of a uint32_t, and the Message base class *)

\* values a byte takes
Byte == 2 ^ 8

\* ::encode(v, bl): append v to bl as 4 bytes, least significant first
encode(v, bl) ==
  bl \o << v[2] % Byte, v[2] \div Byte, v[1] % Byte, v[1] \div Byte >>

\* ::decode(v, p): read 4 bytes at offset p (0-based); throws when fewer remain,
\* and then v is not written
decode(bl, p) ==
  IF Len(bl) - p < sizeof_stats_period
    THEN [err |-> TruncatedPayload, v |-> <<0, 0>>]
    ELSE [err |-> NoErr,
          v   |-> << bl[p + 4] * Byte + bl[p + 3], bl[p + 2] * Byte + bl[p + 1] >>]

\* Message::Message(type, version, compat_version): header set, payload empty
Message(t, hv, cv) ==
  [type |-> t, version |-> hv, compat_version |-> cv, payload |-> << >>]

----------------------------------------------------------------------------
(* class MMgrConfigure *)

\* MMgrConfigure(): stats_period has no initializer, so it holds an
\* indeterminate value u
MMgrConfigure(u) ==
  LET base == Message(MSG_MGR_CONFIGURE, HEAD_VERSION, COMPAT_VERSION)
  IN  [type |-> base.type, version |-> base.version,
       compat_version |-> base.compat_version, payload |-> base.payload,
       stats_period |-> u]

\* decode_payload() with stats_period declared uint16_t: 2 bytes are read
decode_payload_u16(msg) ==
  IF Len(msg.payload) < 2
    THEN [err |-> TruncatedPayload, m |-> msg]
    ELSE [err |-> NoErr,
          m   |-> [msg EXCEPT !.stats_period =
                     <<0, msg.payload[2] * Byte + msg.payload[1]>>]]

\* decode_payload() that rejects a payload it has not consumed to the end
decode_payload_strict(msg) ==
  LET r == decode(msg.payload, 0)
  IN  IF r.err # NoErr THEN [err |-> r.err, m |-> msg]
      ELSE IF Len(msg.payload) > sizeof_stats_period
        THEN [err |-> "MalformedInput", m |-> msg]
        ELSE [err |-> NoErr, m |-> [msg EXCEPT !.stats_period = r.v]]

\* decode_payload() that zeroes stats_period before it reads
decode_payload_clearing(msg) ==
  LET r == decode(msg.payload, 0)
  IN  IF r.err = NoErr
        THEN [err |-> NoErr, m |-> [msg EXCEPT !.stats_period = r.v]]
        ELSE [err |-> r.err, m |-> [msg EXCEPT !.stats_period = <<0, 0>>]]

\* decode_payload(): p = payload.begin(); ::decode(stats_period, p)
decode_payload(msg) ==
  LET r == decode(msg.payload, 0)
  IN  IF r.err = NoErr
        THEN [err |-> NoErr, m |-> [msg EXCEPT !.stats_period = r.v]]
        ELSE [err |-> r.err, m |-> msg]

\* encode_payload() that encodes its argument instead of the member
encode_payload_argument(msg, features) ==
  [msg EXCEPT !.payload = encode(<<0, features>>, msg.payload)]

\* encode_payload() that emits a second field to peers with feature bit 0
encode_payload_featured(msg, features) ==
  [msg EXCEPT !.payload =
     IF features % 2 = 1
       THEN encode(<<0, 0>>, encode(msg.stats_period, msg.payload))
       ELSE encode(msg.stats_period, msg.payload)]

\* encode_payload() that clears the payload before it encodes
encode_payload_clearing(msg, features) ==
  [msg EXCEPT !.payload = encode(msg.stats_period, << >>)]

\* encode_payload(features): ::encode(stats_period, payload)
encode_payload(msg, features) ==
  [msg EXCEPT !.payload = encode(msg.stats_period, msg.payload)]

get_type_name == "mgrconfigure"

\* print() that also writes the period
print_period(msg, o) ==
  o \o get_type_name \o "(" \o ToString(msg.stats_period) \o ")"

\* print(out): out << get_type_name() << "()"
print(msg, o) == o \o get_type_name \o "()"

----------------------------------------------------------------------------
(* The envelope: what the messenger does around the payload *)

\* decode_message: the version gate, then a fresh message of the registered
\* type holding the received body
decode_message(env, u) ==
  IF env.compat_version > HEAD_VERSION
    THEN [err |-> IncompatibleVersion, m |-> NoMsg]
    ELSE [err |-> NoErr, m |-> [MMgrConfigure(u) EXCEPT !.payload = env.body]]

\* sequences over S of length 0..n
RECURSIVE SeqsUpTo(_, _)
SeqsUpTo(S, n) ==
  IF n = 0 THEN { << >> }
  ELSE LET shorter == SeqsUpTo(S, n - 1)
       IN  shorter \cup { s \o <<b>> : s \in shorter, b \in S }

\* bodies a peer other than this sender puts on the wire: the field cut short,
\* or the field followed by bytes of a newer version
ForeignBodies ==
  { SubSeq(encode(p, << >>), 1, k) : p \in Periods, k \in 0..sizeof_stats_period }
  \cup { encode(p, << >>) \o t : p \in Periods, t \in SeqsUpTo(TrailBytes, MaxTrail) }

Call(op, err, in) == [op |-> op, err |-> err, in |-> in]

----------------------------------------------------------------------------
Init ==
  /\ \E u \in Periods : m = MMgrConfigure(u)
  /\ wire = NoWire
  /\ last = Call("MMgrConfigure", NoErr, << >>)
  /\ out = ""
  /\ hist = [role |-> "sender", assigned |-> FALSE, log |-> << >>]
  /\ sent = << >>

\* new MMgrConfigure() on the sending side
New ==
  /\ wire = NoWire
  /\ \E u \in Periods : m' = MMgrConfigure(u)
  /\ last' = Call("MMgrConfigure", NoErr, << >>)
  /\ out' = ""
  /\ hist' = [role |-> "sender", assigned |-> FALSE, log |-> << >>]
  /\ UNCHANGED <<wire, sent>>

\* m->stats_period = p
SetStatsPeriod ==
  /\ m # NoMsg
  /\ \E p \in Periods :
       /\ m' = [m EXCEPT !.stats_period = p]
       /\ last' = Call("set", NoErr, p)
  /\ out' = ""
  /\ hist' = [hist EXCEPT !.assigned = TRUE]
  /\ UNCHANGED <<wire, sent>>

\* m->encode_payload(f)
EncodePayload ==
  /\ m # NoMsg
  /\ Len(m.payload) + sizeof_stats_period <= MaxPayload
  /\ \E f \in Features :
       /\ m' = encode_payload(m, f)
       /\ last' = Call("encode_payload", NoErr, <<f>>)
  /\ out' = ""
  /\ hist' = [hist EXCEPT !.log = Append(@, m.stats_period)]
  /\ UNCHANGED <<wire, sent>>

\* m->decode_payload()
DecodePayload ==
  /\ m # NoMsg
  /\ LET r == decode_payload(m)
     IN  /\ m' = r.m
         /\ last' = Call("decode_payload", r.err, << >>)
         /\ hist' = [hist EXCEPT !.assigned = @ \/ r.err = NoErr]
  /\ out' = ""
  /\ UNCHANGED <<wire, sent>>

\* m->print(out) on an empty stream
Render ==
  /\ m # NoMsg
  /\ out' = print(m, "")
  /\ last' = Call("print", NoErr, << >>)
  /\ UNCHANGED <<m, wire, hist, sent>>

\* the sender hands header and payload to the messenger; the message's life
\* on this side ends
Send ==
  /\ m # NoMsg
  /\ wire = NoWire
  /\ wire' = [type |-> m.type, version |-> m.version,
              compat_version |-> m.compat_version, body |-> m.payload]
  /\ sent' = IF hist.role = "sender" THEN hist.log ELSE << >>
  /\ m' = NoMsg
  /\ last' = Call("send", NoErr, << >>)
  /\ out' = ""
  /\ UNCHANGED hist

\* a peer of this or a newer version, or a faulty one, puts an envelope on the wire
Inject ==
  /\ m = NoMsg
  /\ wire = NoWire
  /\ \E v \in 1..MaxVersion, c \in 1..MaxVersion, b \in ForeignBodies :
       /\ c <= v
       /\ wire' = [type |-> MSG_MGR_CONFIGURE, version |-> v,
                   compat_version |-> c, body |-> b]
  /\ sent' = << >>
  /\ last' = Call("inject", NoErr, << >>)
  /\ UNCHANGED <<m, out, hist>>

\* the sender's message is dropped without being sent
Drop ==
  /\ m # NoMsg
  /\ wire = NoWire
  /\ m' = NoMsg
  /\ last' = Call("put", NoErr, << >>)
  /\ out' = ""
  /\ UNCHANGED <<wire, hist, sent>>

\* the messenger delivers the envelope: decode_message
Receive ==
  /\ wire # NoWire
  /\ \E u \in Periods :
       LET r == decode_message(wire, u)
       IN  /\ m' = r.m
           /\ last' = Call("decode_message", r.err,
                           <<wire.version, wire.compat_version, Len(wire.body)>>)
  /\ wire' = NoWire
  /\ out' = ""
  /\ hist' = [role |-> "receiver", assigned |-> FALSE, log |-> << >>]
  /\ UNCHANGED sent

Next ==
  \/ New
  \/ SetStatsPeriod
  \/ EncodePayload
  \/ DecodePayload
  \/ Render
  \/ Send
  \/ Inject
  \/ Drop
  \/ Receive

Spec == Init /\ [][Next]_vars

TypeOK ==
  /\ m # NoMsg => m.stats_period \in (0..65535) \X (0..65535)
  /\ m # NoMsg => \A i \in 1..Len(m.payload) : m.payload[i] \in 0..255

----------------------------------------------------------------------------
(* Properties *)

Max32 == <<65535, 65535>>

\* C1: a payload encoded once by a fresh sender holding p decodes, on the
\* receiver built from it, without error to stats_period = p.
RoundTrip ==
  (m # NoMsg /\ hist.role = "receiver" /\ last.op = "decode_payload"
     /\ Len(sent) = 1)
  => (last.err = NoErr /\ m.stats_period = sent[1])

RoundTripReached ==
  /\ m # NoMsg /\ hist.role = "receiver" /\ last.op = "decode_payload"
  /\ hist.log = << >>
  /\ sent = << Max32 >>
  /\ m.stats_period = Max32

\* C2: decode_payload on a payload of 0, 1, 2 or 3 bytes fails with
\* TruncatedPayload; on a payload of exactly 4 bytes it succeeds.
Truncation ==
  (m # NoMsg /\ last.op = "decode_payload")
  => /\ Len(m.payload) \in 0..3 => last.err = TruncatedPayload
     /\ Len(m.payload) = 4 => last.err = NoErr

TruncationReached ==
  /\ m # NoMsg /\ last.op = "decode_payload"
  /\ Len(m.payload) = 3
  /\ last.err = TruncatedPayload

\* C3: decode_payload on a payload of 4 or more bytes succeeds, and the
\* stats_period it leaves is the one its first 4 bytes alone decode to.
ForwardCompatible ==
  (m # NoMsg /\ last.op = "decode_payload" /\ Len(m.payload) >= 4)
  => /\ last.err = NoErr
     /\ m.stats_period = decode(SubSeq(m.payload, 1, 4), 0).v

ForwardCompatibleReached ==
  /\ m # NoMsg /\ last.op = "decode_payload" /\ last.err = NoErr
  /\ hist.role = "receiver" /\ hist.log = << >>
  /\ Len(m.payload) = 6
  /\ m.stats_period = <<255, 7680>>

\* C4: a decode_payload that fails leaves the whole message (stats_period,
\* type, both versions, payload) as it was before the call; one that
\* succeeds changes stats_period only, to the value the payload holds.
AtomicDecode ==
  [][ last'.op = "decode_payload"
      => IF last'.err = NoErr
           THEN m' = [m EXCEPT !.stats_period = decode(m.payload, 0).v]
           ELSE m' = m ]_vars

AtomicDecodeReached ==
  /\ m # NoMsg /\ last.op = "decode_payload"
  /\ last.err = TruncatedPayload
  /\ Len(m.payload) = 2
  /\ hist.assigned
  /\ m.stats_period = <<0, 30>>

\* C5: an envelope whose compat_version is above 1, the version this receiver
\* understands, is refused with IncompatibleVersion and no message is
\* delivered, whatever its body; one whose compat_version is at most 1 is
\* accepted, a higher wire version notwithstanding, and its body becomes the
\* payload of the delivered message.
VersionGate ==
  last.op = "decode_message"
  => IF last.in[2] > 1
       THEN last.err = IncompatibleVersion /\ m = NoMsg
       ELSE last.err = NoErr /\ m # NoMsg /\ Len(m.payload) = last.in[3]

VersionGateReached ==
  /\ last.op = "decode_message"
  /\ last.in = <<2, 2, 4>>
  /\ last.err = IncompatibleVersion
  /\ m = NoMsg

\* C6: a constructed message that has not been assigned or decoded into
\* holds stats_period = 0, and what it encodes is the encoding of 0.
ConstructedZero ==
  (m # NoMsg /\ ~hist.assigned)
  => /\ m.stats_period = <<0, 0>>
     /\ \A f \in Features :
          encode_payload(m, f).payload = m.payload \o <<0, 0, 0, 0>>

\* C7: every live message carries the manager-configure type id, version 1
\* and compat_version 1, so version >= compat_version.
HeaderInvariant ==
  m # NoMsg
  => /\ m.type = "MSG_MGR_CONFIGURE"
     /\ m.version = 1
     /\ m.compat_version = 1
     /\ m.version >= m.compat_version

HeaderInvariantReached ==
  /\ m # NoMsg /\ hist.role = "sender"
  /\ hist.assigned
  /\ Len(hist.log) = 2
  /\ last.op = "decode_payload"
  /\ m.type = "MSG_MGR_CONFIGURE" /\ m.version = 1 /\ m.compat_version = 1

\* C8 as stated: whatever feature_set is passed, encode_payload gives the same
\* message, and its payload is exactly 4 bytes.
FeatureIndependentFourBytes ==
  (m # NoMsg /\ Len(m.payload) + sizeof_stats_period <= MaxPayload)
  => \A f1, f2 \in Features :
       /\ encode_payload(m, f1) = encode_payload(m, f2)
       /\ Len(encode_payload(m, f1).payload) = 4

\* C8: every encode_payload call leaves the message that any other feature_set
\* would have left: the payload as it was followed by exactly 4 bytes, and
\* every other field unchanged.
FeatureIndependent ==
  [][ last'.op = "encode_payload"
      => \A f \in Features :
           /\ m' = encode_payload(m, f)
           /\ Len(m'.payload) = Len(m.payload) + 4
           /\ SubSeq(m'.payload, 1, Len(m.payload)) = m.payload
           /\ [m' EXCEPT !.payload = m.payload] = m ]_vars

FeatureIndependentReached ==
  /\ m # NoMsg /\ last.op = "encode_payload"
  /\ last.in = <<6>>
  /\ Len(m.payload) = 8
  /\ m.stats_period = <<0, 30>>

\* C9: print writes exactly "mgrconfigure()", whatever the message holds, and
\* leaves the message as it was.
Rendering ==
  [][ last'.op = "print" => out' = "mgrconfigure()" /\ m' = m ]_vars

RenderingReached ==
  /\ m # NoMsg /\ last.op = "print"
  /\ out = "mgrconfigure()"
  /\ m.stats_period = Max32
  /\ m.payload # << >>

\* the encodings of the values of log, in order
RECURSIVE Encoded(_)
Encoded(log) ==
  IF log = << >> THEN << >>
  ELSE Encoded(SubSeq(log, 1, Len(log) - 1)) \o
       << log[Len(log)][2] % 256, log[Len(log)][2] \div 256,
          log[Len(log)][1] % 256, log[Len(log)][1] \div 256 >>

\* C10: after n encode_payload calls a sender's payload is the n encodings in
\* call order, 4 * n bytes; encode_payload leaves stats_period as it was; and
\* decode_payload of that buffer, here or on the receiver, yields the value
\* of the first encode.
AppendOnly ==
  /\ (m # NoMsg /\ hist.role = "sender")
     => /\ Len(m.payload) = 4 * Len(hist.log)
        /\ m.payload = Encoded(hist.log)
        /\ last.op = "encode_payload"
           => m.stats_period = hist.log[Len(hist.log)]
        /\ (last.op = "decode_payload" /\ hist.log # << >>)
           => last.err = NoErr /\ m.stats_period = hist.log[1]
  /\ (m # NoMsg /\ hist.role = "receiver" /\ last.op = "decode_payload"
        /\ Len(sent) >= 2)
     => last.err = NoErr /\ m.stats_period = sent[1]

AppendOnlyReached ==
  /\ m # NoMsg /\ hist.role = "sender"
  /\ last.op = "decode_payload"
  /\ hist.log = << <<0, 30>>, Max32, <<0, 0>> >>
  /\ Len(m.payload) = 12
  /\ m.stats_period = <<0, 30>>

=============================================================================
